---- MODULE Spec2Model ----
(***************************************************************************)
(* The orm storage core of weave: a Bucket over a byte-keyed key/value     *)
(* store, its secondary indexes and its sequences.                         *)
(*                                                                         *)
(* Bytes are the integers 0..255, byte strings are sequences of bytes.     *)
(* The store db is a function from the keys that are set to their values.  *)
(***************************************************************************)
EXTENDS Integers, Sequences, FiniteSets

(***************************************************************************)
(* Bounds of the model.                                                    *)
(***************************************************************************)
\* primary keys are the one-byte strings <<1>> .. <<MaxKey>>
MaxKey == 2
\* with the non-unique index alone the keys are <<1>> .. <<MaxMultiKey>>
MaxMultiKey == 3
\* the Name field of a value ranges over 0..MaxName (0: the empty name)
MaxName == 2
\* NextVal is called while the persisted counter is below MaxCount
MaxCount == 3
\* schema versions range over 1..MaxVersion
MaxVersion == 3
\* ed25519.GenerateKey yields one of the keys 1..MaxPriv
MaxPriv == 2
\* an error is wrapped up to MaxDepth times
MaxDepth == 2
\* block heights and last-modified heights range over 0..MaxHeight
MaxHeight == 1
\* the handlers of the decorated bucket use the keys <<1>> .. <<MaxModelKey>>
MaxModelKey == 1
\* the backing array of a bucket's prefix has 0..MaxSpare bytes after the prefix
MaxSpare == 2
\* a payment channel's Total ranges over 1..MaxTotal
MaxTotal == 2
\* block times and channel timeouts range over 0..MaxTime
MaxTime == 1

VARIABLES
    bucket,   \* the Bucket value the application was wired with
    keys,     \* the primary keys the application uses
    db,       \* the weave.KVStore
    seq,      \* the Sequence obtained from bucket.Sequence(SeqID): its id
    issued,   \* the values NextVal returned so far, in call order
    bootAt,   \* how many values had been issued when the process last started
    last,     \* the most recent call: its arguments and what it returned
    unbound,  \* the UnboundModelBucket WithLastModified returned
    bound,    \* the ModelBucket each handler holds from its latest Bind
    router,   \* the weave.QueryRouter: the routes registered so far
    registry, \* the migration registry of the stored type
    fs,       \* the file at the key path of cmdKeygen
    pc,       \* where each invocation of cmdKeygen stands
    priv,     \* the private key each invocation of cmdKeygen generated
    backing,  \* the array behind bucket.prefix: its spare bytes after the prefix
    held,     \* the slices DBKey and Sequence returned that their caller keeps
    chans,    \* the payment channels stored in the paychan bucket, by id
    wallet,   \* the coins the cash controller holds for each address
    now       \* the block time

vars ==
    <<bucket, keys, db, seq, issued, bootAt, last, unbound, bound, router,
      registry, fs, pc, priv, backing, held, chans, wallet, now>>

\* the state of the decorator
lmVars == <<unbound, bound, router>>

\* the state of the key generation command
keygenVars == <<fs, pc, priv>>

\* the state outside the Bucket and its Sequence
\* the state of the slices built on the bucket's prefix
aliasVars == <<backing, held>>

\* the state of the payment channel handlers
paychanVars == <<chans, wallet, now>>

extVars == <<lmVars, registry, keygenVars, aliasVars, paychanVars>>

(***************************************************************************)
(* Byte strings.                                                           *)
(***************************************************************************)
RECURSIVE BytesLess(_, _)
\* bytes.Compare(a, b) < 0: the lexicographic order of the store's keys
BytesLess(a, b) ==
    IF Len(a) = 0 THEN Len(b) > 0
    ELSE IF Len(b) = 0 THEN FALSE
    ELSE IF a[1] /= b[1] THEN a[1] < b[1]
    ELSE BytesLess(Tail(a), Tail(b))

Range(s) == {s[i] : i \in 1..Len(s)}

RECURSIVE Orders(_)
\* every order in which a Go map with the keys S can be iterated
Orders(S) ==
    IF S = {} THEN {<<>>}
    ELSE UNION {{<<x>> \o p : p \in Orders(S \ {x})} : x \in S}

(***************************************************************************)
(* Errors.                                                                 *)
(***************************************************************************)
NoErr == "nil"
ErrInvalid == "validation failed"
ErrMarshal == "cannot marshal"
ErrUnmarshal == "cannot unmarshal"
ErrDuplicate == "duplicate key"
ErrNoIndex == "No such index"
ErrNotFound == "not found"

(***************************************************************************)
(* The Value capability of the stored type: a record with a Name and a Tag *)
(* byte (0: not set, or 1).  Validate rejects a value without Tag.  Marshal writes the two    *)
(* fields, Unmarshal reads them back and rejects anything else.            *)
(***************************************************************************)
Values == [name : 0..MaxName, tag : {0, 1}]

ZeroValue == [name |-> 0, tag |-> 0]

Validate(v) == IF v.tag = 0 THEN ErrInvalid ELSE NoErr

\* m.(metadator): the model type has GetMetadata; its metadata holds the
\* schema version of the record (0: not set) and the height the model was
\* last modified at
IsMetadator(v) == "schema" \in DOMAIN v

Marshal(v) ==
    IF IsMetadator(v) THEN <<v.name, v.tag, v.schema, v.lastModified>>
    ELSE <<v.name, v.tag>>

UnmarshalOk(bz) == Len(bz) \in {2, 4}

Unmarshal(bz) ==
    IF Len(bz) = 4
    THEN [name |-> bz[1], tag |-> bz[2], schema |-> bz[3], lastModified |-> bz[4]]
    ELSE [name |-> bz[1], tag |-> bz[2]]

(***************************************************************************)
(* Objects: a primary key with its value; NilObj is Go's nil Object.       *)
(***************************************************************************)
NilObj == [isNil |-> TRUE, key |-> <<>>, value |-> ZeroValue]

NewSimpleObj(key, value) == [isNil |-> FALSE, key |-> key, value |-> value]

KeysUpTo(n) == {<<k>> : k \in 1..n}

(***************************************************************************)
(* The store.                                                              *)
(***************************************************************************)
Has(store, key) == key \in DOMAIN store

Set(store, key, value) ==
    [k \in (DOMAIN store) \cup {key} |-> IF k = key THEN value ELSE store[k]]

Del(store, key) == [k \in (DOMAIN store) \ {key} |-> store[k]]

EmptyStore == [k \in {} |-> <<>>]

(***************************************************************************)
(* Index: the indexers, the MultiRef stored under an index key, Update,    *)
(* GetAt and GetLike.                                                      *)
(***************************************************************************)
\* the index keys an indexer derives from an object: none for an empty name
Indexer(kind, obj) ==
    IF kind = "name"
    THEN (IF obj.value.name = 0 THEN <<>> ELSE <<<<obj.value.name>>>>)
    ELSE <<<<obj.value.tag>>>>

NewIndex(iname, kind, unique) ==
    [id |-> iname \o <<58>>, indexer |-> kind, unique |-> unique]

\* the store key of an index entry
IndexKey(idx, ikey) == idx.id \o ikey

\* the MultiRef stored under an index key, empty when there is none
GetAt(idx, store, ikey) ==
    IF Has(store, IndexKey(idx, ikey)) THEN store[IndexKey(idx, ikey)] ELSE <<>>

RECURSIVE SortedInsert(_, _)
\* refs with pk added, kept sorted and without duplicates
SortedInsert(refs, pk) ==
    IF Len(refs) = 0 THEN <<pk>>
    ELSE IF refs[1] = pk THEN refs
    ELSE IF BytesLess(pk, refs[1]) THEN <<pk>> \o refs
    ELSE <<refs[1]>> \o SortedInsert(Tail(refs), pk)

RefsRemove(refs, pk) == SelectSeq(refs, LAMBDA r : r /= pk)

\* IndexRemove that writes the MultiRef back also when it is empty
IndexRemoveKeepsEmpty(idx, store, ikey, pk) ==
    Set(store, IndexKey(idx, ikey), RefsRemove(GetAt(idx, store, ikey), pk))

\* remove pk from the MultiRef under ikey; an empty MultiRef is deleted
IndexRemove(idx, store, ikey, pk) ==
    LET refs == RefsRemove(GetAt(idx, store, ikey), pk)
    IN  IF Len(refs) = 0 THEN Del(store, IndexKey(idx, ikey))
        ELSE Set(store, IndexKey(idx, ikey), refs)

\* add pk to the MultiRef under ikey; a unique index refuses a second key
IndexInsert(idx, store, ikey, pk) ==
    LET refs == GetAt(idx, store, ikey)
    IN  IF idx.unique /\ \E i \in 1..Len(refs) : refs[i] /= pk
        THEN [db |-> store, err |-> ErrDuplicate]
        ELSE [db |-> Set(store, IndexKey(idx, ikey), SortedInsert(refs, pk)),
              err |-> NoErr]

RECURSIVE IndexRemoveAll(_, _, _, _)
IndexRemoveAll(idx, store, ikeys, pk) ==
    IF Len(ikeys) = 0 THEN store
    ELSE IndexRemoveAll(idx, IndexRemove(idx, store, ikeys[1], pk), Tail(ikeys), pk)

RECURSIVE IndexInsertAll(_, _, _, _)
IndexInsertAll(idx, store, ikeys, pk) ==
    IF Len(ikeys) = 0 THEN [db |-> store, err |-> NoErr]
    ELSE LET r == IndexInsert(idx, store, ikeys[1], pk)
         IN  IF r.err /= NoErr THEN r
             ELSE IndexInsertAll(idx, r.db, Tail(ikeys), pk)

\* Index.Update(db, prev, save): drop the old keys no longer produced, then
\* add the new ones; keys produced before and after are left alone
IndexUpdate(idx, store, prev, save) ==
    LET oldKeys == IF prev.isNil THEN <<>> ELSE Indexer(idx.indexer, prev)
        newKeys == IF save.isNil THEN <<>> ELSE Indexer(idx.indexer, save)
        pk == IF save.isNil THEN prev.key ELSE save.key
        gone == SelectSeq(oldKeys, LAMBDA k : k \notin Range(newKeys))
        added == SelectSeq(newKeys, LAMBDA k : k \notin Range(oldKeys))
    IN  IndexInsertAll(idx, IndexRemoveAll(idx, store, gone, pk), added, pk)

RECURSIVE GetAtAll(_, _, _)
GetAtAll(idx, store, ikeys) ==
    IF Len(ikeys) = 0 THEN <<>>
    ELSE GetAt(idx, store, ikeys[1]) \o GetAtAll(idx, store, Tail(ikeys))

\* Index.GetLike(db, pattern): the references under the pattern's index keys
GetLike(idx, store, pattern) ==
    GetAtAll(idx, store, Indexer(idx.indexer, pattern))

(***************************************************************************)
(* Bucket.                                                                 *)
(***************************************************************************)
\* "acct"
BucketName == <<97, 99, 99, 116>>

\* the names of the indexes as byte strings: "name", "tag"
IndexNameBytes(n) ==
    IF n = "name" THEN <<110, 97, 109, 101>> ELSE <<116, 97, 103>>

\* "id"
SeqID == <<105, 100>>

NewBucket(name) ==
    [name |-> name, prefix |-> name \o <<58>>, indexes |-> [n \in {} |-> 0]]

DBKey(b, key) == b.prefix \o key

WithIndex(b, n, kind, unique) ==
    LET add == NewIndex(b.name \o <<95>> \o IndexNameBytes(n), kind, unique)
    IN  [b EXCEPT !.indexes =
            [m \in (DOMAIN b.indexes) \cup {n} |->
                IF m = n THEN add ELSE b.indexes[m]]]

\* WithIndex that writes the index into the map of the receiver
WithIndexInPlace(b, n, kind, unique) ==
    [panic |-> n \in DOMAIN b.indexes,
     out |-> IF n \in DOMAIN b.indexes THEN b ELSE WithIndex(b, n, kind, unique),
     recv |-> IF n \in DOMAIN b.indexes THEN b.indexes
              ELSE WithIndex(b, n, kind, unique).indexes]

\* a call of Bucket.WithIndex: [panic, out, recv], recv the index map the
\* receiver holds when the call is over
WithIndexCall(b, n, kind, unique) ==
    IF n \in DOMAIN b.indexes
    THEN [panic |-> TRUE, out |-> b, recv |-> b.indexes]
    ELSE [panic |-> FALSE, out |-> WithIndex(b, n, kind, unique),
          recv |-> b.indexes]

\* Get that leaves out obj.SetKey(key)
GetNoSetKey(b, store, key) ==
    LET dbkey == b.prefix \o key
    IN  IF ~Has(store, dbkey) THEN [obj |-> NilObj, err |-> NoErr]
        ELSE IF ~UnmarshalOk(store[dbkey])
        THEN [obj |-> NilObj, err |-> ErrUnmarshal]
        ELSE [obj |-> NewSimpleObj(<<>>, Unmarshal(store[dbkey])), err |-> NoErr]

\* Get that returns the clone of the prototype without unmarshalling into it
GetNoUnmarshal(b, store, key) ==
    LET dbkey == b.prefix \o key
    IN  IF ~Has(store, dbkey) THEN [obj |-> NilObj, err |-> NoErr]
        ELSE [obj |-> NewSimpleObj(key, ZeroValue), err |-> NoErr]

\* Bucket.Get: [obj, err]
Get(b, store, key) ==
    LET dbkey == DBKey(b, key)
    IN  IF ~Has(store, dbkey) THEN [obj |-> NilObj, err |-> NoErr]
        ELSE IF ~UnmarshalOk(store[dbkey])
        THEN [obj |-> NilObj, err |-> ErrUnmarshal]
        ELSE [obj |-> NewSimpleObj(key, Unmarshal(store[dbkey])), err |-> NoErr]

RECURSIVE UpdateEach(_, _, _, _, _)
\* the loop of updateIndexes over the indexes in the order of the iteration
UpdateEach(b, store, prev, model, order) ==
    IF Len(order) = 0 THEN [db |-> store, err |-> NoErr]
    ELSE LET r == IndexUpdate(b.indexes[order[1]], store, prev, model)
         IN  IF r.err /= NoErr THEN r
             ELSE UpdateEach(b, r.db, prev, model, Tail(order))

updateIndexes(b, store, key, model, order) ==
    IF Cardinality(DOMAIN b.indexes) > 0
    THEN LET g == Get(b, store, key)
         IN  IF g.err /= NoErr THEN [db |-> store, err |-> g.err]
             ELSE UpdateEach(b, store, g.obj, model, order)
    ELSE [db |-> store, err |-> NoErr]

\* Save that validates only after it has updated the indexes
SaveValidatesLast(b, store, model, marshalOk, order) ==
    LET u == updateIndexes(b, store, model.key, model, order)
    IN  IF u.err /= NoErr THEN u
        ELSE IF Validate(model.value) /= NoErr
        THEN [db |-> u.db, err |-> Validate(model.value)]
        ELSE IF ~marshalOk THEN [db |-> u.db, err |-> ErrMarshal]
        ELSE [db |-> Set(u.db, b.prefix \o model.key, Marshal(model.value)),
              err |-> NoErr]

\* Save that writes the record before it updates the indexes
SaveWritesFirst(b, store, model, marshalOk, order) ==
    IF Validate(model.value) /= NoErr
    THEN [db |-> store, err |-> Validate(model.value)]
    ELSE IF ~marshalOk THEN [db |-> store, err |-> ErrMarshal]
    ELSE LET u == updateIndexes(b, store, model.key, model, order)
         IN  [db |-> Set(u.db, b.prefix \o model.key, Marshal(model.value)),
              err |-> u.err]

\* Save that refuses a key a record is already stored under
SaveInsertOnly(b, store, model, marshalOk, order) ==
    IF Validate(model.value) /= NoErr
    THEN [db |-> store, err |-> Validate(model.value)]
    ELSE IF ~marshalOk THEN [db |-> store, err |-> ErrMarshal]
    ELSE IF Has(store, b.prefix \o model.key)
    THEN [db |-> store, err |-> ErrDuplicate]
    ELSE LET bz == Marshal(model.value)
             u == updateIndexes(b, store, model.key, model, order)
         IN  IF u.err /= NoErr THEN u
             ELSE [db |-> Set(u.db, b.prefix \o model.key, bz), err |-> NoErr]

\* Bucket.Save: [db, err]; marshalOk is whether model.Value().Marshal() succeeds
Save(b, store, model, marshalOk, order) ==
    IF Validate(model.value) /= NoErr
    THEN [db |-> store, err |-> Validate(model.value)]
    ELSE IF ~marshalOk THEN [db |-> store, err |-> ErrMarshal]
    ELSE LET bz == Marshal(model.value)
             u == updateIndexes(b, store, model.key, model, order)
         IN  IF u.err /= NoErr THEN u
             ELSE [db |-> Set(u.db, b.prefix \o model.key, bz), err |-> NoErr]

\* Delete that removes the record and leaves the indexes alone
DeleteKeepsRefs(b, store, key, order) ==
    [db |-> Del(store, DBKey(b, key)), err |-> NoErr]

\* Bucket.Delete: [db, err]
Delete(b, store, key, order) ==
    LET u == updateIndexes(b, store, key, NilObj, order)
    IN  IF u.err /= NoErr THEN u
        ELSE [db |-> Del(u.db, DBKey(b, key)), err |-> NoErr]

\* Bucket.Sequence(name): the id of the Sequence
Sequence(b, name) == b.prefix \o name

RECURSIVE readRefsFrom(_, _, _)
readRefsFrom(b, store, refs) ==
    IF Len(refs) = 0 THEN [objs |-> <<>>, err |-> NoErr]
    ELSE LET g == Get(b, store, refs[1])
             rest == readRefsFrom(b, store, Tail(refs))
         IN  IF g.err /= NoErr THEN [objs |-> <<>>, err |-> g.err]
             ELSE IF rest.err /= NoErr THEN rest
             ELSE [objs |-> <<g.obj>> \o rest.objs, err |-> NoErr]

\* Bucket.readRefs: [objs, err]
readRefs(b, store, refs) ==
    IF Len(refs) = 0 THEN [objs |-> <<>>, err |-> NoErr]
    ELSE readRefsFrom(b, store, refs)

\* Bucket.GetIndexed: [objs, err]
GetIndexed(b, store, n, ikey) ==
    IF n \notin DOMAIN b.indexes THEN [objs |-> <<>>, err |-> ErrNoIndex]
    ELSE readRefs(b, store, GetAt(b.indexes[n], store, ikey))

\* Bucket.GetIndexedLike: [objs, err]
GetIndexedLike(b, store, n, pattern) ==
    IF n \notin DOMAIN b.indexes THEN [objs |-> <<>>, err |-> ErrNoIndex]
    ELSE readRefs(b, store, GetLike(b.indexes[n], store, pattern))

(***************************************************************************)
(* Sequence: an 8-byte big-endian counter stored under its id.             *)
(***************************************************************************)
RECURSIVE ShiftRight(_, _)
\* val >> (8 * n)
ShiftRight(val, n) == IF n = 0 THEN val ELSE ShiftRight(val \div 256, n - 1)

\* binary.BigEndian.PutUint64
encodeSequence(val) == [i \in 1..8 |-> ShiftRight(val, 8 - i) % 256]

RECURSIVE decodeFrom(_, _)
decodeFrom(bz, acc) ==
    IF Len(bz) = 0 THEN acc ELSE decodeFrom(Tail(bz), acc * 256 + bz[1])

\* an absent counter reads as 0
decodeSequence(store, id) == IF Has(store, id) THEN decodeFrom(store[id], 0) ELSE 0

\* NextVal that does not write the incremented counter back
NextValNoStore(id, store) ==
    [db |-> store, out |-> encodeSequence(decodeSequence(store, id) + 1)]

\* Sequence.NextVal: [db, out]
NextVal(id, store) ==
    LET val == decodeSequence(store, id) + 1
    IN  [db |-> Set(store, id, encodeSequence(val)), out |-> encodeSequence(val)]

(***************************************************************************)
(* The buckets an application can be wired with.                           *)
(***************************************************************************)
PlainBucket == NewBucket(BucketName)

UniqueBucket == WithIndex(PlainBucket, "name", "name", TRUE)

MultiBucket == WithIndex(PlainBucket, "tag", "tag", FALSE)

BothBucket == WithIndex(UniqueBucket, "tag", "tag", FALSE)

Buckets == {PlainBucket, UniqueBucket, MultiBucket, BothBucket}

IndexNames == {"name", "tag"}

\* the index keys a query can ask for
IndexKeys == {<<k>> : k \in 1..MaxName}

(***************************************************************************)
(* The ModelBucket the decorators wrap: a Bucket behind the contract One,  *)
(* ByIndex, Put, Delete, Has and Register.                                 *)
(***************************************************************************)
\* [obj, err]: an absent key is reported as not found
modelBucketOne(b, store, key) ==
    LET g == Get(b, store, key)
    IN  IF g.err = NoErr /\ g.obj.isNil
        THEN [obj |-> NilObj, err |-> ErrNotFound]
        ELSE g

\* [keys, objs, err]: the matching primary keys and their models
modelBucketByIndex(b, store, n, ikey) ==
    LET r == GetIndexed(b, store, n, ikey)
    IN  [keys |-> [i \in 1..Len(r.objs) |-> r.objs[i].key],
         objs |-> r.objs, err |-> r.err]

\* [db, key, err]: the key the model was stored under
modelBucketPut(b, store, key, m, marshalOk, order) ==
    LET r == Save(b, store, NewSimpleObj(key, m), marshalOk, order)
    IN  [db |-> r.db, key |-> IF r.err = NoErr THEN key ELSE <<>>,
         err |-> r.err]

\* [db, err]
modelBucketDelete(b, store, key, order) == Delete(b, store, key, order)

\* [err]
modelBucketHas(b, store, key) ==
    [err |-> IF Has(store, DBKey(b, key)) THEN NoErr ELSE ErrNotFound]

\* the router with the bucket's read-only routes registered under name
modelBucketRegister(b, name, r) == r \cup {<<name, b.name>>}

(***************************************************************************)
(* WithLastModified: the decorator that binds the block height of the      *)
(* context.                                                                *)
(***************************************************************************)
\* a context without a block height, and the contexts that carry one
NoHeightCtx == [hasHeight |-> FALSE, height |-> 0]

Ctxs == {NoHeightCtx} \cup {[hasHeight |-> TRUE, height |-> h] : h \in 0..MaxHeight}

\* weave.GetHeight(ctx): [height, ok]
GetHeight(ctx) == [height |-> ctx.height, ok |-> ctx.hasHeight]

WithLastModified(b) == [bucket |-> b]

\* no ModelBucket: what a handler holds before its first Bind
NilBound == [isNil |-> TRUE, blockHeight |-> 0, bucket |-> PlainBucket]

\* Bind that binds height 0 when the context carries none
BindZeroHeight(u, ctx) ==
    [panic |-> FALSE,
     out |-> [isNil |-> FALSE, blockHeight |-> GetHeight(ctx).height,
              bucket |-> u.bucket]]

\* unboundLastModifiedBucket.Bind: [panic, out]
Bind(u, ctx) ==
    LET h == GetHeight(ctx)
    IN  IF ~h.ok THEN [panic |-> TRUE, out |-> NilBound]
        ELSE [panic |-> FALSE,
              out |-> [isNil |-> FALSE, blockHeight |-> h.height,
                       bucket |-> u.bucket]]

lastModifiedBucketOne(lb, store, key) == modelBucketOne(lb.bucket, store, key)

lastModifiedBucketByIndex(lb, store, n, ikey) ==
    modelBucketByIndex(lb.bucket, store, n, ikey)

\* lastModifiedBucket.Put: the metadata of a metadator is fetched and printed,
\* the model is handed to the wrapped bucket as it came
lastModifiedBucketPut(lb, store, key, m, marshalOk, order) ==
    modelBucketPut(lb.bucket, store, key, m, marshalOk, order)

\* Delete that asks the wrapped bucket for Has
DeleteForwardsToHas(lb, store, key, order) ==
    [db |-> store, err |-> modelBucketHas(lb.bucket, store, key).err]

lastModifiedBucketDelete(lb, store, key, order) ==
    modelBucketDelete(lb.bucket, store, key, order)

lastModifiedBucketHas(lb, store, key) == modelBucketHas(lb.bucket, store, key)

lastModifiedBucketRegister(lb, name, r) == modelBucketRegister(lb.bucket, name, r)

\* the handlers that bind the bucket
Slots == {"a", "b"}

\* the models of the decorated bucket: its type has metadata; a model has
\* no name or the one name
Models ==
    [name : {0, 1}, tag : {0, 1}, schema : {0}, lastModified : 0..MaxHeight]

\* the route names Register is called with
RouteNames == {"/accts", "/wallets"}

(***************************************************************************)
(* The schema migration wrapper: the registry holds the current version of *)
(* the stored type and the versions a migration is registered for; the     *)
(* migration registered for version v takes a record from v-1 to v.        *)
(***************************************************************************)
ErrSchema == "schema"

\* migration.MustRegister(1, &PaymentChannel{}, migration.NoModification)
InitRegistry == [current |-> 1, registered |-> {1}]

\* the registries a process can start with: version 1 is registered by
\* init, any of the later versions up to the current one may be
Registries ==
    UNION {{[current |-> n, registered |-> {1} \cup R] : R \in SUBSET (2..n)} :
            n \in 1..MaxVersion}

\* the migration registered for version v, applied to the name of a record:
\* migration.NoModification for version 1, else doubling (even v) or adding
\* one (odd v), modulo 3
MigrationFn(v, name) ==
    IF v = 1 THEN name
    ELSE IF v % 2 = 0 THEN (2 * name) % 3
    ELSE (name + 1) % 3

RECURSIVE ApplyDescending(_, _, _)
\* the migrations to..from, the one of the highest version first
ApplyDescending(value, from, to) ==
    IF from > to THEN value
    ELSE ApplyDescending(
            [value EXCEPT !.name = MigrationFn(to, value.name), !.schema = to],
            from, to - 1)

RECURSIVE ApplyAscending(_, _, _)
\* the migrations from..to, one after the other
ApplyAscending(value, from, to) ==
    IF from > to THEN value
    ELSE ApplyAscending(
            [value EXCEPT !.name = MigrationFn(from, value.name), !.schema = from],
            from + 1, to)

\* migrate that applies the migrations it finds and skips the missing ones
migrateSkipsGaps(reg, value) ==
    LET present == {w \in (value.schema + 1)..reg.current : w \in reg.registered}
        step[w \in 0..reg.current] ==
            IF w = 0 THEN value
            ELSE IF w \in present
            THEN [step[w - 1] EXCEPT !.name = MigrationFn(w, step[w - 1].name)]
            ELSE step[w - 1]
    IN  [value |-> [step[reg.current] EXCEPT !.schema = reg.current],
         err |-> NoErr]

\* migrate that applies the migration of the current version first
migrateDescending(reg, value) ==
    IF value.schema > reg.current
    THEN [value |-> value, err |-> ErrSchema]
    ELSE IF \E w \in (value.schema + 1)..reg.current : w \notin reg.registered
    THEN [value |-> value, err |-> ErrSchema]
    ELSE [value |-> [ApplyDescending(value, value.schema + 1, reg.current)
                        EXCEPT !.schema = reg.current],
          err |-> NoErr]

\* bring a stored record to the current version: [value, err]
migrate(reg, value) ==
    IF value.schema > reg.current
    THEN [value |-> value, err |-> ErrSchema]
    ELSE IF \E w \in (value.schema + 1)..reg.current : w \notin reg.registered
    THEN [value |-> value, err |-> ErrSchema]
    ELSE [value |-> ApplyAscending(value, value.schema + 1, reg.current),
          err |-> NoErr]

\* migration.Bucket.Get: [obj, err]
migrationBucketGet(b, reg, store, key) ==
    LET g == Get(b, store, key)
    IN  IF g.err /= NoErr \/ g.obj.isNil THEN g
        ELSE LET m == migrate(reg, g.obj.value)
             IN  IF m.err /= NoErr THEN [obj |-> NilObj, err |-> m.err]
                 ELSE [obj |-> NewSimpleObj(key, m.value), err |-> NoErr]

\* migration.Bucket.Save: [db, err]; the record is stamped with the current
\* version
migrationBucketSave(b, reg, store, obj, marshalOk, order) ==
    Save(b, store,
         NewSimpleObj(obj.key, [obj.value EXCEPT !.schema = reg.current]),
         marshalOk, order)

\* the records of the migration-aware bucket as the callers pass them
Records == [name : 0..2, tag : {0, 1}, schema : {0, 1}, lastModified : {0}]

(***************************************************************************)
(* cmdKeygen: the file at the key path is absent, or exists with a content *)
(* (0: empty, else the key written to it).  Invocations of the command run *)
(* as processes of their own over the same file system.                    *)
(***************************************************************************)
NoFile == [exists |-> FALSE, content |-> 0]

Procs == {1, 2}

\* os.Stat(path) followed by !os.IsNotExist(err): the command gives up
StatRefuses(file) == file.exists

\* os.OpenFile(path, O_CREATE|O_WRONLY, 0600): [file, ok]; an absent file
\* is created empty, an existing file is opened as it is
OpenFile(file) ==
    IF file.exists THEN [file |-> file, ok |-> TRUE]
    ELSE [file |-> [exists |-> TRUE, content |-> 0], ok |-> TRUE]

\* fd.Write(priv) at offset 0 of the open file
Write(file, key) == [exists |-> TRUE, content |-> key]

(***************************************************************************)
(* Errors of the errors package: a coded error or a stdlib error wrapped   *)
(* depth times, nil, a typed nil, or the multi-error Append builds.        *)
(***************************************************************************)
Codes == {"NotFound", "Model", "State"}

NilErr == [kind |-> "nil", code |-> "", depth |-> 0, items |-> <<>>]

TypedNil == [kind |-> "typednil", code |-> "", depth |-> 0, items |-> <<>>]

Coded(c) == [kind |-> "coded", code |-> c, depth |-> 0, items |-> <<>>]

Stdlib == [kind |-> "std", code |-> "", depth |-> 0, items |-> <<>>]

\* errors.Wrap(err, msg)
Wrap(err) == [err EXCEPT !.depth = err.depth + 1]

\* errors.Append(errs...): the multi-error of the errors that are not nil
AppendErrs(errs) ==
    [kind |-> "multi", code |-> "", depth |-> 0,
     items |-> SelectSeq(errs, LAMBDA e : e.kind /= "nil")]

\* the error wrapped by err, err itself when it wraps none
Unwrap(err) == IF err.depth > 0 THEN [err EXCEPT !.depth = err.depth - 1] ELSE err

\* errors.Cause(err): the root of the chain of wrapped errors
Cause(err) == [err EXCEPT !.depth = 0]

isNilErr(err) == err.kind \in {"nil", "typednil"}

RECURSIVE IsFirstOnly(_, _)
\* Is that looks at the first error of a multi-error only
IsFirstOnly(kind, target) ==
    IF isNilErr(kind) THEN isNilErr(target)
    ELSE IF target.kind = "multi"
    THEN Len(target.items) > 0 /\ IsFirstOnly(kind, target.items[1])
    ELSE IF target = kind THEN TRUE
    ELSE IF target.depth > 0 THEN IsFirstOnly(kind, Unwrap(target))
    ELSE FALSE

RECURSIVE Is(_, _)
\* Error.Is(target): kind is nil or a coded error
Is(kind, target) ==
    IF isNilErr(kind) THEN isNilErr(target)
    ELSE IF target.kind = "multi"
    THEN \E i \in 1..Len(target.items) : Is(kind, target.items[i])
    ELSE IF target = kind THEN TRUE
    ELSE IF target.depth > 0 THEN Is(kind, Unwrap(target))
    ELSE FALSE

\* the chains of wrapped errors up to the depth d
RECURSIVE Chains(_)
Chains(d) ==
    IF d = 0 THEN {Coded(c) : c \in Codes} \cup {Stdlib}
    ELSE Chains(d - 1) \cup {Wrap(e) : e \in Chains(d - 1)}

\* the errors Is is asked about
Targets ==
    LET single == Chains(MaxDepth) \cup {NilErr}
    IN  single \cup {TypedNil}
          \cup {AppendErrs(<<x, y>>) : x \in single, y \in single}

\* the receivers of Is: a nil Error pointer or a coded error
Receivers == {NilErr} \cup {Coded(c) : c \in Codes}

(***************************************************************************)
(* The slices built on the bucket's prefix.  NewBucket builds the prefix   *)
(* as append([]byte(name), ':'); how many bytes of the array behind it are *)
(* left after the prefix is the allocator's choice, 0..MaxSpare here.      *)
(* DBKey, Save and Sequence each build a key as append(b.prefix, ...): when *)
(* the appended bytes fit in the spare bytes they are written there and    *)
(* the result is a slice of the prefix's own array, otherwise the result   *)
(* is a fresh array.  Bucket is passed by value; the array is shared by    *)
(* every copy.  A slice is [set, aliased, bytes]: bytes is its content     *)
(* when it was returned.                                                   *)
(***************************************************************************)
HeldSlots == {"key", "seq"}

NilSlice == [set |-> FALSE, aliased |-> FALSE, bytes |-> <<>>]

\* the arrays a build can put behind the prefix: zeroed spare bytes
Backings == {[spare |-> n, tail |-> [i \in 1..n |-> 0]] : n \in 0..MaxSpare}

NoBacking == [spare |-> 0, tail |-> <<>>]

\* append(b.prefix, key...): [backing, slice]
appendPrefix(b, back, key) ==
    IF Len(key) <= back.spare
    THEN [backing |->
              [back EXCEPT !.tail =
                   key \o SubSeq(back.tail, Len(key) + 1, back.spare)],
          slice |-> [set |-> TRUE, aliased |-> TRUE, bytes |-> b.prefix \o key]]
    ELSE [backing |-> back,
          slice |-> [set |-> TRUE, aliased |-> FALSE, bytes |-> b.prefix \o key]]

\* what a slice reads as now
SliceBytes(b, back, h) ==
    IF h.aliased
    THEN b.prefix \o SubSeq(back.tail, 1, Len(h.bytes) - Len(b.prefix))
    ELSE h.bytes

(***************************************************************************)
(* The state machine: one action per call of the application.  last holds  *)
(* the call just made: its arguments, what it returned, and had, whether a *)
(* record was stored under its key when it was made.                       *)
(***************************************************************************)
Call(op, key, value, n, err, objs, out, had) ==
    [op |-> op, key |-> key, value |-> value, index |-> n, err |-> err,
     objs |-> objs, out |-> out, had |-> had]

NoCall == Call("init", <<>>, ZeroValue, "", NoErr, <<>>, <<>>, FALSE)

\* no invocation of cmdKeygen is running, there is no key file
KeygenInit ==
    /\ fs = NoFile
    /\ pc = [p \in Procs |-> "done"]
    /\ priv = [p \in Procs |-> 0]

\* no slice of the prefix is held, the prefix has no spare bytes
AliasInit ==
    /\ backing = NoBacking
    /\ held = [s \in HeldSlots |-> NilSlice]

\* no payment channel, no account
PaychanInit ==
    /\ chans = [c \in {} |-> 0]
    /\ wallet = [a \in {} |-> 0]
    /\ now = 0

\* no decorator in use: nothing wrapped, nothing bound, no route
ExtInit ==
    /\ unbound = WithLastModified(PlainBucket)
    /\ bound = [s \in {} |-> NilBound]
    /\ router = {}
    /\ registry = InitRegistry
    /\ KeygenInit
    /\ AliasInit
    /\ PaychanInit

Init ==
    /\ bucket \in Buckets
    /\ keys = KeysUpTo(MaxKey)
    /\ db = EmptyStore
    /\ seq = Sequence(bucket, SeqID)
    /\ issued = <<>>
    /\ bootAt = 0
    /\ last = NoCall
    /\ ExtInit

\* a bucket with the non-unique index alone
InitMulti ==
    /\ bucket = MultiBucket
    /\ keys = KeysUpTo(MaxMultiKey)
    /\ db = EmptyStore
    /\ seq = Sequence(bucket, SeqID)
    /\ issued = <<>>
    /\ bootAt = 0
    /\ last = NoCall
    /\ ExtInit

\* a bucket without indexes, its primary keys and its default sequence
InitSeq ==
    /\ bucket = PlainBucket
    /\ keys = KeysUpTo(MaxKey)
    /\ db = EmptyStore
    /\ seq = Sequence(bucket, SeqID)
    /\ issued = <<>>
    /\ bootAt = 0
    /\ last = NoCall
    /\ ExtInit

\* Marshal is reached only by a value that passed Validate: its outcome is
\* drawn only then
DoSave ==
    \E key \in keys, value \in Values, order \in Orders(DOMAIN bucket.indexes) :
    \E marshalOk \in (IF Validate(value) = NoErr THEN BOOLEAN ELSE {TRUE}) :
        LET r == Save(bucket, db, NewSimpleObj(key, value), marshalOk, order)
        IN  /\ db' = r.db
            /\ last' = Call("Save", key, value, "", r.err, <<>>, <<>>,
                            Has(db, DBKey(bucket, key)))
            /\ UNCHANGED <<bucket, keys, seq, issued, bootAt, extVars>>

DoDelete ==
    \E key \in keys, order \in Orders(DOMAIN bucket.indexes) :
        LET r == Delete(bucket, db, key, order)
        IN  /\ db' = r.db
            /\ last' = Call("Delete", key, ZeroValue, "", r.err, <<>>, <<>>,
                            Has(db, DBKey(bucket, key)))
            /\ UNCHANGED <<bucket, keys, seq, issued, bootAt, extVars>>

DoGet ==
    \E key \in keys :
        LET r == Get(bucket, db, key)
        IN  /\ last' = Call("Get", key, ZeroValue, "", r.err, <<r.obj>>, <<>>,
                            Has(db, DBKey(bucket, key)))
            /\ UNCHANGED <<bucket, keys, db, seq, issued, bootAt, extVars>>

DoGetIndexed ==
    \E n \in IndexNames, ikey \in IndexKeys :
        LET r == GetIndexed(bucket, db, n, ikey)
        IN  /\ last' = Call("GetIndexed", ikey, ZeroValue, n, r.err, r.objs,
                            <<>>, FALSE)
            /\ UNCHANGED <<bucket, keys, db, seq, issued, bootAt, extVars>>

DoGetIndexedLike ==
    \E n \in IndexNames, value \in Values :
        LET r == GetIndexedLike(bucket, db, n, NewSimpleObj(<<>>, value))
        IN  /\ last' = Call("GetIndexedLike", <<>>, value, n, r.err, r.objs,
                            <<>>, FALSE)
            /\ UNCHANGED <<bucket, keys, db, seq, issued, bootAt, extVars>>

DoNextVal ==
    /\ decodeSequence(db, seq) < MaxCount
    /\ Len(issued) < MaxCount
    /\ LET r == NextVal(seq, db)
       IN  /\ db' = r.db
           /\ issued' = Append(issued, r.out)
           /\ last' = Call("NextVal", <<>>, ZeroValue, "", NoErr, <<>>, r.out,
                           FALSE)
    /\ UNCHANGED <<bucket, keys, seq, bootAt, extVars>>

\* the process restarts: the Sequence is obtained again, the store persists
DoRestart ==
    /\ seq' = Sequence(bucket, SeqID)
    /\ bootAt' = Len(issued)
    /\ last' = Call("Restart", <<>>, ZeroValue, "", NoErr, <<>>, <<>>, FALSE)
    /\ UNCHANGED <<bucket, keys, db, issued, extVars>>

Next ==
    \/ DoSave
    \/ DoDelete
    \/ DoGet
    \/ DoGetIndexed
    \/ DoGetIndexedLike

NextSeq ==
    \/ DoNextVal
    \/ DoRestart
    \/ DoSave
    \/ DoDelete
    \/ DoGet

Spec == Init /\ [][Next]_vars

SpecMulti == InitMulti /\ [][Next]_vars

SpecSeq == InitSeq /\ [][NextSeq]_vars

(***************************************************************************)
(* The decorated bucket: handlers bind WithLastModified(bucket) to their   *)
(* context and call the bound bucket.  last holds the call, res what it    *)
(* returned.                                                               *)
(***************************************************************************)
LMCall(op, slot, key, value, n, order, name, ctx, panic, res) ==
    [op |-> op, slot |-> slot, key |-> key, value |-> value, index |-> n,
     order |-> order, name |-> name, ctx |-> ctx, panic |-> panic, res |-> res]

\* one handler works on a bucket with the unique index
InitLM ==
    /\ bucket = UniqueBucket
    /\ keys = KeysUpTo(MaxModelKey)
    /\ db = EmptyStore
    /\ seq = Sequence(bucket, SeqID)
    /\ issued = <<>>
    /\ bootAt = 0
    /\ unbound = WithLastModified(bucket)
    /\ bound = [s \in {"a"} |-> NilBound]
    /\ router = {}
    /\ registry = InitRegistry
    /\ KeygenInit
    /\ AliasInit
    /\ PaychanInit
    /\ last = LMCall("init", "a", <<>>, ZeroValue, "", <<>>, "", NoHeightCtx,
                     FALSE, [err |-> NoErr])

\* two handlers bind the bucket, nothing is stored
InitBind ==
    /\ bucket = UniqueBucket
    /\ keys = {}
    /\ db = EmptyStore
    /\ seq = Sequence(bucket, SeqID)
    /\ issued = <<>>
    /\ bootAt = 0
    /\ unbound = WithLastModified(bucket)
    /\ bound = [s \in Slots |-> NilBound]
    /\ router = {}
    /\ registry = InitRegistry
    /\ KeygenInit
    /\ AliasInit
    /\ PaychanInit
    /\ last = LMCall("init", "a", <<>>, ZeroValue, "", <<>>, "", NoHeightCtx,
                     FALSE, [err |-> NoErr])

\* a handler binds the bucket; after a panic it holds what it held before
DoBind ==
    \E s \in DOMAIN bound, ctx \in Ctxs :
        LET r == Bind(unbound, ctx)
        IN  /\ bound' = IF r.panic THEN bound ELSE [bound EXCEPT ![s] = r.out]
            /\ last' = LMCall("Bind", s, <<>>, ZeroValue, "", <<>>, "", ctx,
                              r.panic, [err |-> NoErr])
            /\ UNCHANGED <<bucket, keys, db, seq, issued, bootAt, unbound, router, registry, keygenVars,
                 aliasVars, paychanVars>>

DoOne ==
    \E s \in DOMAIN bound, key \in keys :
        /\ ~bound[s].isNil
        /\ last' = LMCall("One", s, key, ZeroValue, "", <<>>, "", NoHeightCtx,
                          FALSE, lastModifiedBucketOne(bound[s], db, key))
        /\ UNCHANGED <<bucket, keys, db, seq, issued, bootAt, extVars>>

DoByIndex ==
    \E s \in DOMAIN bound, n \in IndexNames, ikey \in IndexKeys :
        /\ ~bound[s].isNil
        /\ last' = LMCall("ByIndex", s, ikey, ZeroValue, n, <<>>, "",
                          NoHeightCtx, FALSE,
                          lastModifiedBucketByIndex(bound[s], db, n, ikey))
        /\ UNCHANGED <<bucket, keys, db, seq, issued, bootAt, extVars>>

DoPut ==
    \E s \in DOMAIN bound, key \in keys, m \in Models,
       order \in Orders(DOMAIN bucket.indexes) :
    \E marshalOk \in (IF Validate(m) = NoErr THEN BOOLEAN ELSE {TRUE}) :
        /\ ~bound[s].isNil
        /\ LET r == lastModifiedBucketPut(bound[s], db, key, m, marshalOk, order)
           IN  /\ db' = r.db
               /\ last' = LMCall("Put", s, key, m, "", order, "", NoHeightCtx,
                                 FALSE, [key |-> r.key, err |-> r.err])
        /\ UNCHANGED <<bucket, keys, seq, issued, bootAt, extVars>>

DoLMDelete ==
    \E s \in DOMAIN bound, key \in keys, order \in Orders(DOMAIN bucket.indexes) :
        /\ ~bound[s].isNil
        /\ LET r == lastModifiedBucketDelete(bound[s], db, key, order)
           IN  /\ db' = r.db
               /\ last' = LMCall("Delete", s, key, ZeroValue, "", order, "",
                                 NoHeightCtx, FALSE, [err |-> r.err])
        /\ UNCHANGED <<bucket, keys, seq, issued, bootAt, extVars>>

DoHas ==
    \E s \in DOMAIN bound, key \in keys :
        /\ ~bound[s].isNil
        /\ last' = LMCall("Has", s, key, ZeroValue, "", <<>>, "", NoHeightCtx,
                          FALSE, lastModifiedBucketHas(bound[s], db, key))
        /\ UNCHANGED <<bucket, keys, db, seq, issued, bootAt, extVars>>

DoRegister ==
    \E s \in DOMAIN bound, name \in RouteNames :
        /\ ~bound[s].isNil
        /\ router' = lastModifiedBucketRegister(bound[s], name, router)
        /\ last' = LMCall("Register", s, <<>>, ZeroValue, "", <<>>, name,
                          NoHeightCtx, FALSE, [err |-> NoErr])
        /\ UNCHANGED <<bucket, keys, db, seq, issued, bootAt, unbound, bound, registry, keygenVars,
                 aliasVars, paychanVars>>

NextLM ==
    \/ DoBind
    \/ DoOne
    \/ DoByIndex
    \/ DoPut
    \/ DoLMDelete
    \/ DoHas
    \/ DoRegister

SpecLM == InitLM /\ [][NextLM]_vars

NextBind ==
    \/ DoBind
    \/ DoRegister

SpecBind == InitBind /\ [][NextBind]_vars

(***************************************************************************)
(* The migration-aware bucket: processes start with a registry, write and  *)
(* read one record.                                                        *)
(***************************************************************************)
MigCall(op, key, value, res) == [op |-> op, key |-> key, value |-> value, res |-> res]

InitMig ==
    /\ bucket = PlainBucket
    /\ keys = KeysUpTo(1)
    /\ db = EmptyStore
    /\ seq = Sequence(bucket, SeqID)
    /\ issued = <<>>
    /\ bootAt = 0
    /\ unbound = WithLastModified(PlainBucket)
    /\ bound = [s \in {} |-> NilBound]
    /\ router = {}
    /\ registry = InitRegistry
    /\ KeygenInit
    /\ AliasInit
    /\ PaychanInit
    /\ last = MigCall("init", <<>>, ZeroValue, [err |-> NoErr])

\* a process starts: its init functions have filled the registry
DoStart ==
    \E reg \in Registries :
        /\ registry' = reg
        /\ last' = MigCall("Start", <<>>, ZeroValue, [err |-> NoErr])
        /\ UNCHANGED <<bucket, keys, db, seq, issued, bootAt, lmVars, keygenVars,
                 aliasVars, paychanVars>>

DoMigSave ==
    \E key \in keys, value \in Records :
    \E marshalOk \in (IF Validate(value) = NoErr THEN BOOLEAN ELSE {TRUE}) :
        LET r == migrationBucketSave(bucket, registry, db,
                                     NewSimpleObj(key, value), marshalOk, <<>>)
        IN  /\ db' = r.db
            /\ last' = MigCall("Save", key, value, [err |-> r.err])
            /\ UNCHANGED <<bucket, keys, seq, issued, bootAt, extVars>>

DoMigGet ==
    \E key \in keys :
        /\ last' = MigCall("Get", key, ZeroValue,
                           migrationBucketGet(bucket, registry, db, key))
        /\ UNCHANGED <<bucket, keys, db, seq, issued, bootAt, extVars>>

NextMig ==
    \/ DoStart
    \/ DoMigSave
    \/ DoMigGet

SpecMig == InitMig /\ [][NextMig]_vars

(***************************************************************************)
(* The wiring of the application: a bucket is built by chaining WithIndex. *)
(***************************************************************************)
WireCall(op, n, kind, unique, panic, recv) ==
    [op |-> op, index |-> n, kind |-> kind, unique |-> unique, panic |-> panic,
     recv |-> recv]

InitWire ==
    /\ bucket = NewBucket(BucketName)
    /\ keys = {}
    /\ db = EmptyStore
    /\ seq = Sequence(bucket, SeqID)
    /\ issued = <<>>
    /\ bootAt = 0
    /\ ExtInit
    /\ last = WireCall("init", "", "", FALSE, FALSE, bucket.indexes)

\* the chain goes on with the bucket WithIndex returned; after a panic the
\* application still has the bucket it called WithIndex on
DoWithIndex ==
    \E n \in IndexNames, kind \in IndexNames, unique \in BOOLEAN :
        LET r == WithIndexCall(bucket, n, kind, unique)
        IN  /\ bucket' = r.out
            /\ last' = WireCall("WithIndex", n, kind, unique, r.panic, r.recv)
            /\ UNCHANGED <<keys, db, seq, issued, bootAt, extVars>>

\* the application starts a new chain
DoNewBucket ==
    /\ bucket' = NewBucket(BucketName)
    /\ last' = WireCall("NewBucket", "", "", FALSE, FALSE, bucket'.indexes)
    /\ UNCHANGED <<keys, db, seq, issued, bootAt, extVars>>

NextWire ==
    \/ DoWithIndex
    \/ DoNewBucket

SpecWire == InitWire /\ [][NextWire]_vars

(***************************************************************************)
(* Calls of Error.Is.                                                   *)
(***************************************************************************)
ErrCall(op, a, b, got) == [op |-> op, a |-> a, b |-> b, got |-> got]

InitErr ==
    /\ bucket = PlainBucket
    /\ keys = {}
    /\ db = EmptyStore
    /\ seq = Sequence(bucket, SeqID)
    /\ issued = <<>>
    /\ bootAt = 0
    /\ ExtInit
    /\ last = ErrCall("init", NilErr, NilErr, FALSE)

DoIs ==
    \E a \in Receivers, b \in Targets :
        /\ last' = ErrCall("Is", a, b, Is(a, b))
        /\ UNCHANGED <<bucket, keys, db, seq, issued, bootAt, extVars>>

NextErr == DoIs

SpecErr == InitErr /\ [][NextErr]_vars

(***************************************************************************)
(* Invocations of cmdKeygen with the same key path.  Each step of the      *)
(* command is a step of its process; GenerateKey, OpenFile, Write and      *)
(* Close can fail.                                                         *)
(***************************************************************************)
ErrExists == "private key file already exists"
ErrGenerate == "cannot generate ed25519 key"
ErrCreate == "cannot create public key file"
ErrWrite == "cannot write private key"
ErrClose == "cannot close private key file"

KeygenCall(op, p, err) == [op |-> op, proc |-> p, err |-> err]

InitKeygen ==
    /\ bucket = PlainBucket
    /\ keys = {}
    /\ db = EmptyStore
    /\ seq = Sequence(bucket, SeqID)
    /\ issued = <<>>
    /\ bootAt = 0
    /\ unbound = WithLastModified(PlainBucket)
    /\ bound = [s \in {} |-> NilBound]
    /\ router = {}
    /\ registry = InitRegistry
    /\ KeygenInit
    /\ AliasInit
    /\ PaychanInit
    /\ last = KeygenCall("init", 1, NoErr)

\* the command is run
DoInvoke(p) ==
    /\ pc[p] = "done"
    /\ pc' = [pc EXCEPT ![p] = "stat"]
    /\ priv' = [priv EXCEPT ![p] = 0]
    /\ last' = KeygenCall("Invoke", p, NoErr)
    /\ UNCHANGED <<bucket, keys, db, seq, issued, bootAt, lmVars, registry, fs,
                 aliasVars, paychanVars>>

DoStat(p) ==
    /\ pc[p] = "stat"
    /\ IF StatRefuses(fs)
       THEN /\ pc' = [pc EXCEPT ![p] = "done"]
            /\ last' = KeygenCall("Stat", p, ErrExists)
       ELSE /\ pc' = [pc EXCEPT ![p] = "generate"]
            /\ last' = KeygenCall("Stat", p, NoErr)
    /\ UNCHANGED <<bucket, keys, db, seq, issued, bootAt, lmVars, registry, fs, priv,
                 aliasVars, paychanVars>>

DoGenerateKey(p) ==
    /\ pc[p] = "generate"
    /\ \/ \E k \in 1..MaxPriv :
            /\ priv' = [priv EXCEPT ![p] = k]
            /\ pc' = [pc EXCEPT ![p] = "open"]
            /\ last' = KeygenCall("GenerateKey", p, NoErr)
       \/ /\ pc' = [pc EXCEPT ![p] = "done"]
          /\ last' = KeygenCall("GenerateKey", p, ErrGenerate)
          /\ UNCHANGED priv
    /\ UNCHANGED <<bucket, keys, db, seq, issued, bootAt, lmVars, registry, fs,
                 aliasVars, paychanVars>>

DoOpenFile(p) ==
    /\ pc[p] = "open"
    /\ \/ /\ OpenFile(fs).ok
          /\ fs' = OpenFile(fs).file
          /\ pc' = [pc EXCEPT ![p] = "write"]
          /\ last' = KeygenCall("OpenFile", p, NoErr)
       \/ /\ pc' = [pc EXCEPT ![p] = "done"]
          /\ last' = KeygenCall("OpenFile", p, ErrCreate)
          /\ UNCHANGED fs
    /\ UNCHANGED <<bucket, keys, db, seq, issued, bootAt, lmVars, registry, priv,
                 aliasVars, paychanVars>>

DoWrite(p) ==
    /\ pc[p] = "write"
    /\ \/ /\ fs' = Write(fs, priv[p])
          /\ pc' = [pc EXCEPT ![p] = "close"]
          /\ last' = KeygenCall("Write", p, NoErr)
       \/ /\ pc' = [pc EXCEPT ![p] = "done"]
          /\ last' = KeygenCall("Write", p, ErrWrite)
          /\ UNCHANGED fs
    /\ UNCHANGED <<bucket, keys, db, seq, issued, bootAt, lmVars, registry, priv,
                 aliasVars, paychanVars>>

DoClose(p) ==
    /\ pc[p] = "close"
    /\ pc' = [pc EXCEPT ![p] = "done"]
    /\ \E err \in {NoErr, ErrClose} : last' = KeygenCall("Close", p, err)
    /\ UNCHANGED <<bucket, keys, db, seq, issued, bootAt, lmVars, registry, fs, priv,
                 aliasVars, paychanVars>>

NextKeygen ==
    \E p \in Procs :
        \/ DoInvoke(p)
        \/ DoStat(p)
        \/ DoGenerateKey(p)
        \/ DoOpenFile(p)
        \/ DoWrite(p)
        \/ DoClose(p)

SpecKeygen == InitKeygen /\ [][NextKeygen]_vars

(***************************************************************************)
(* What the claims are stated with.                                        *)
(***************************************************************************)
\* the record stored under a primary key, NilObj when there is none
Stored(store, key) == Get(bucket, store, key).obj

\* the MultiRef of index n under the index key ikey
Refs(store, n, ikey) == GetAt(bucket.indexes[n], store, ikey)

\* the index keys the indexer of index n derives from an object
KeysOf(n, obj) == Range(Indexer(bucket.indexes[n].indexer, obj))

\* the primary keys of the objects GetIndexed(n, ikey) returns
Returned(store, n, ikey) ==
    LET r == GetIndexed(bucket, store, n, ikey)
    IN  {r.objs[i].key : i \in {j \in 1..Len(r.objs) : ~r.objs[j].isNil}}

\* GetIndexed(n, ikey) returns an object carrying the primary key
ReturnsKey(store, n, ikey, key) == key \in Returned(store, n, ikey)

\* strictly ascending in the order of the store: sorted, each key once
Ascending(refs) ==
    \A i, j \in 1..Len(refs) : i < j => BytesLess(refs[i], refs[j])

\* the step is a Save that passed Validate and Marshal
SavePastMarshal(call) ==
    call.op = "Save" /\ call.err \notin {ErrInvalid, ErrMarshal}

\* C1: after any sequence of Save and Delete calls, failed ones included,
\* every primary key listed under an index key has a stored record whose
\* indexer output contains that index key, and every stored record is listed
\* under each index key its indexer produces.
C1_IndexesConsistent ==
    /\ \A n \in DOMAIN bucket.indexes, ikey \in IndexKeys :
        \A i \in 1..Len(Refs(db, n, ikey)) :
            LET obj == Stored(db, Refs(db, n, ikey)[i])
            IN  ~obj.isNil /\ ikey \in KeysOf(n, obj)
    /\ \A key \in keys, n \in DOMAIN bucket.indexes :
        ~Stored(db, key).isNil =>
            \A ikey \in KeysOf(n, Stored(db, key)) :
                key \in Range(Refs(db, n, ikey))

\* C2: with a unique index, when k1 has just been saved with a value mapping
\* to the index key x and a different key k2 is then saved with a value
\* mapping to x, the second Save returns the duplicate-key error and the
\* MultiRef under x is unchanged and lists only k1.
C2_SecondSaveRejected ==
    [][ ( /\ "name" \in DOMAIN bucket.indexes
          /\ last.op = "Save" /\ last.err = NoErr /\ last.value.name /= 0
          /\ SavePastMarshal(last')
          /\ last'.key /= last.key
          /\ last'.value.name = last.value.name )
        => ( /\ last'.err = ErrDuplicate
             /\ Refs(db', "name", <<last.value.name>>)
                    = Refs(db, "name", <<last.value.name>>)
             /\ Refs(db', "name", <<last.value.name>>) = <<last.key>> )
      ]_vars

\* C3: a Save of an object that fails Validate returns the validation error
\* and leaves the whole store as it was.
C3_InvalidSaveChangesNothing ==
    [][ (last'.op = "Save" /\ Validate(last'.value) /= NoErr)
        => (last'.err = ErrInvalid /\ db' = db) ]_vars

C3_Witness ==
    /\ last.op = "Save" /\ last.err = ErrInvalid
    /\ "name" \in DOMAIN bucket.indexes
    /\ \E key \in keys : ~Stored(db, key).isNil

\* C4: a Save that fails in an index update or in the lookup of the previous
\* object returns the error and leaves the value stored at prefix+key as it
\* was: absent stays absent, an older value stays.
C4_FailedSaveKeepsRecord ==
    [][ (last'.op = "Save" /\ last'.err \in {ErrDuplicate, ErrUnmarshal})
        => LET dbkey == DBKey(bucket, last'.key)
           IN  /\ Has(db', dbkey) <=> Has(db, dbkey)
               /\ Has(db, dbkey) => db'[dbkey] = db[dbkey] ]_vars

C4_Witness ==
    /\ last.op = "Save" /\ last.err = ErrDuplicate /\ last.had
    /\ db[DBKey(bucket, last.key)] /= Marshal(last.value)

\* C5: a successful Delete of a stored object leaves Get(key) absent and the
\* key out of what GetIndexed returns for every index key the object mapped
\* to, and no call that changes the store, other than a Save of that key,
\* brings either back.
C5_DeletedKeyGone ==
    [][ /\ ( /\ last'.op = "Delete" /\ last'.err = NoErr
             /\ Has(db, DBKey(bucket, last'.key)) )
           => ( /\ Get(bucket, db', last'.key) = [obj |-> NilObj, err |-> NoErr]
                /\ \A n \in DOMAIN bucket.indexes :
                    \A ikey \in KeysOf(n, Stored(db, last'.key)) :
                        /\ last'.key \notin Range(Refs(db', n, ikey))
                        /\ ~ReturnsKey(db', n, ikey, last'.key) )
        /\ db' /= db
           => /\ \A key \in keys :
                   ~(last'.op = "Save" /\ last'.key = key)
                   => (Stored(db, key).isNil => Stored(db', key).isNil)
              /\ \A n \in DOMAIN bucket.indexes, ikey \in IndexKeys :
                   LET before == Returned(db, n, ikey) \cup Range(Refs(db, n, ikey))
                       after  == Returned(db', n, ikey) \cup Range(Refs(db', n, ikey))
                   IN  \A key \in after \ before :
                           last'.op = "Save" /\ last'.key = key
      ]_vars

C5_Witness ==
    /\ last.op = "Delete" /\ last.err = NoErr /\ last.had
    /\ DOMAIN bucket.indexes = {"name", "tag"}
    /\ \E ikey \in IndexKeys : Len(Refs(db, "tag", ikey)) > 0

\* the MultiRefs of the non-unique index hold exactly the primary keys of
\* the stored records mapping to each index key, each once, in sorted order
MultiRefExact ==
    \A ikey \in IndexKeys :
        /\ Ascending(Refs(db, "tag", ikey))
        /\ Range(Refs(db, "tag", ikey))
             = {key \in keys : /\ ~Stored(db, key).isNil
                                 /\ ikey \in KeysOf("tag", Stored(db, key))}

\* C6: in a bucket with a non-unique index, after a successful Save or
\* Delete the MultiRef under an index key holds exactly the primary keys of
\* the records saved and not deleted that map to it (the N-M remaining of N
\* saved and M deleted), each once, in sorted order.
C6_RemainingRefsExact ==
    ( /\ "tag" \in DOMAIN bucket.indexes
      /\ last.op \in {"Save", "Delete"} /\ last.err = NoErr )
    => MultiRefExact

\* the same with the non-unique index as the bucket's only index
C6_AloneRefsExact ==
    DOMAIN bucket.indexes = {"tag"} => MultiRefExact

C6_AloneWitness ==
    /\ last.op = "Delete" /\ last.err = NoErr /\ last.had
    /\ \E ikey \in IndexKeys :
        /\ Len(Refs(db, "tag", ikey)) = 2
        /\ \E i \in 1..2 : BytesLess(last.key, Refs(db, "tag", ikey)[i])

\* C7: a successful Save is read back by Get under its key with the value
\* saved, and does not change what Get returns for any other key; so after
\* two Saves of distinct keys each key reads back the value saved under it.
C7_RoundTrip ==
    [][ (last'.op = "Save" /\ last'.err = NoErr)
        => ( /\ Get(bucket, db', last'.key)
                  = [obj |-> NewSimpleObj(last'.key, last'.value), err |-> NoErr]
             /\ \A key \in keys \ {last'.key} :
                    Get(bucket, db', key) = Get(bucket, db, key)
             /\ (last.op = "Save" /\ last.err = NoErr /\ last.key /= last'.key)
                => Get(bucket, db', last.key)
                     = [obj |-> NewSimpleObj(last.key, last.value), err |-> NoErr] )
      ]_vars

C7_Witness ==
    /\ last.op = "Save" /\ last.err = NoErr
    /\ \E key \in keys \ {last.key} :
        /\ ~Stored(db, key).isNil
        /\ Stored(db, key).value /= last.value
        /\ Stored(db, last.key).value = last.value

\* C8: the values NextVal returns are 8 bytes long, above 0 and strictly
\* increasing in call order, also across restarts of the process.
C8_NextValIncreasing ==
    /\ \A i \in 1..Len(issued) :
        Len(issued[i]) = 8 /\ BytesLess(encodeSequence(0), issued[i])
    /\ Ascending(issued)

C8_Witness ==
    /\ last.op = "NextVal"
    /\ 0 < bootAt /\ bootAt < Len(issued)
    /\ Len(issued) = MaxCount

\* C9: Get returns a nil object with a nil error exactly when nothing is
\* stored at prefix+key, returns an object carrying the requested key when a
\* record is stored, and never changes the store.
C9_GetResult ==
    [][ last'.op = "Get"
        => ( /\ db' = db
             /\ (last'.objs[1].isNil /\ last'.err = NoErr)
                    <=> ~Has(db, DBKey(bucket, last'.key))
             /\ Has(db, DBKey(bucket, last'.key))
                    => ( /\ last'.err = NoErr
                         /\ ~last'.objs[1].isNil
                         /\ last'.objs[1].key = last'.key ) )
      ]_vars

C9_Witness ==
    /\ last.op = "Get" /\ last.had
    /\ ~last.objs[1].isNil /\ last.objs[1].key = last.key
    /\ \E key \in keys : ~Has(db, DBKey(bucket, key))

\* the references a GetIndexed or GetIndexedLike call resolves
Resolved(call) ==
    IF call.op = "GetIndexed" THEN Refs(db, call.index, call.key)
    ELSE GetLike(bucket.indexes[call.index], db, NewSimpleObj(<<>>, call.value))

\* C10: a GetIndexed or GetIndexedLike that resolves an index entry listing
\* a primary key without a stored record returns an error.
C10_MissingRecordIsError ==
    ( /\ last.op \in {"GetIndexed", "GetIndexedLike"}
      /\ last.index \in DOMAIN bucket.indexes
      /\ \E i \in 1..Len(Resolved(last)) :
            ~Has(db, DBKey(bucket, Resolved(last)[i])) )
    => last.err /= NoErr

\* the call through the decorator returned res and left the store as the
\* same call on the wrapped bucket returns and leaves it
SameAsWrapped(res, store) == last'.res = res /\ db' = store /\ router' = router

\* C11: One, ByIndex, Delete, Has and Register on a bucket bound from
\* WithLastModified(bucket) return what the same call on the wrapped bucket
\* returns and change the store and the router as that call changes them.
C11_PassThrough ==
    [][ /\ last'.op = "One"
           => SameAsWrapped(modelBucketOne(bucket, db, last'.key), db)
        /\ last'.op = "ByIndex"
           => SameAsWrapped(
                 modelBucketByIndex(bucket, db, last'.index, last'.key), db)
        /\ last'.op = "Delete"
           => LET d == modelBucketDelete(bucket, db, last'.key, last'.order)
              IN  SameAsWrapped([err |-> d.err], d.db)
        /\ last'.op = "Has"
           => SameAsWrapped(modelBucketHas(bucket, db, last'.key), db)
        /\ last'.op = "Register"
           => /\ router' = modelBucketRegister(bucket, last'.name, router)
              /\ db' = db
      ]_vars

C11_Witness ==
    /\ last.op = "ByIndex" /\ last.res.err = NoErr /\ Len(last.res.keys) > 0
    /\ router /= {}

\* C12: a successful Put of a model with metadata through a bucket bound at
\* height H leaves under the key a record whose last-modified height is H.
C12_PutStampsHeight ==
    [][ (last'.op = "Put" /\ last'.res.err = NoErr /\ IsMetadator(last'.value))
        => LET r == modelBucketOne(bucket, db', last'.key)
           IN  /\ r.err = NoErr
               /\ IsMetadator(r.obj.value)
               /\ r.obj.value.lastModified = bound[last'.slot].blockHeight
      ]_vars

\* C13: Bind with a context without block height panics and hands out no
\* bucket; with a context of height H the handler gets a bucket holding H and
\* the wrapped bucket; the unbound bucket and the buckets the other handlers
\* hold stay as they were.
C13_Bind ==
    [][ last'.op = "Bind"
        => /\ unbound' = unbound
           /\ \A s \in Slots \ {last'.slot} : bound'[s] = bound[s]
           /\ IF last'.ctx.hasHeight
              THEN /\ ~last'.panic
                   /\ bound'[last'.slot] =
                        [isNil |-> FALSE, blockHeight |-> last'.ctx.height,
                         bucket |-> bucket]
              ELSE /\ last'.panic
                   /\ bound' = bound
      ]_vars

C13_Witness ==
    /\ last.op = "Bind" /\ last.panic
    /\ ~bound["a"].isNil /\ ~bound["b"].isNil
    /\ bound["a"].blockHeight /= bound["b"].blockHeight

\* the record stored under a key of the migration-aware bucket
StoredRecord(store, key) == Unmarshal(store[DBKey(bucket, key)])

\* every step from the version v up to the current one is registered
StepsRegistered(v) == \A w \in (v + 1)..registry.current : w \in registry.registered

RECURSIVE StepByStep(_, _, _)
\* the record at version v taken through v->v+1, ..., n-1->n
StepByStep(value, v, n) ==
    IF v >= n THEN value
    ELSE StepByStep([value EXCEPT !.name = MigrationFn(v + 1, value.name),
                                  !.schema = v + 1], v + 1, n)

\* C14: a read of a record stored at a version v <= N whose steps to N are
\* registered returns the record taken through v->v+1, ..., N-1->N in that
\* order, and a successful write leaves the record stamped with N.
C14_ReadMigratesWriteStamps ==
    [][ /\ ( /\ last'.op = "Get"
             /\ Has(db, DBKey(bucket, last'.key))
             /\ StoredRecord(db, last'.key).schema <= registry.current
             /\ StepsRegistered(StoredRecord(db, last'.key).schema) )
           => /\ last'.res.err = NoErr
              /\ last'.res.obj =
                    NewSimpleObj(last'.key,
                        StepByStep(StoredRecord(db, last'.key),
                                   StoredRecord(db, last'.key).schema,
                                   registry.current))
        /\ (last'.op = "Save" /\ last'.res.err = NoErr)
           => /\ Has(db', DBKey(bucket, last'.key))
              /\ StoredRecord(db', last'.key) =
                    [last'.value EXCEPT !.schema = registry.current]
      ]_vars

\* a read went through two steps whose order matters
C14_Witness ==
    /\ last.op = "Get" /\ last.res.err = NoErr /\ ~last.res.obj.isNil
    /\ StoredRecord(db, last.key).schema + 2 <= registry.current
    /\ last.res.obj.value /=
         ApplyDescending(StoredRecord(db, last.key),
                         StoredRecord(db, last.key).schema + 1, registry.current)

\* C15: a read of a record whose stored version is above N, or below N with
\* a step to N missing from the registry, returns the configuration error
\* and no record.
C15_NoReadAcrossGap ==
    [][ ( /\ last'.op = "Get"
          /\ Has(db, DBKey(bucket, last'.key))
          /\ \/ StoredRecord(db, last'.key).schema > registry.current
             \/ ~StepsRegistered(StoredRecord(db, last'.key).schema) )
        => last'.res = [obj |-> NilObj, err |-> ErrSchema]
      ]_vars

\* a read stopped at a missing step, the record being two versions behind
C15_Witness ==
    /\ last.op = "Get" /\ last.res.err = ErrSchema
    /\ StoredRecord(db, last.key).schema + 2 <= registry.current
    /\ registry.current \in registry.registered

\* C16: WithIndex with a name that is not registered returns a bucket with
\* the indexes of the receiver and the new one, identified as
\* bucketName_name; with a registered name it panics; either way the
\* receiver keeps the index set it had.
C16_WithIndex ==
    [][ last'.op = "WithIndex"
        => /\ last'.recv = bucket.indexes
           /\ IF last'.index \in DOMAIN bucket.indexes
              THEN last'.panic
              ELSE /\ ~last'.panic
                   /\ bucket'.name = bucket.name
                   /\ bucket'.prefix = bucket.prefix
                   /\ DOMAIN bucket'.indexes =
                        DOMAIN bucket.indexes \cup {last'.index}
                   /\ \A m \in DOMAIN bucket.indexes :
                        bucket'.indexes[m] = bucket.indexes[m]
                   /\ bucket'.indexes[last'.index] =
                        [id |-> bucket.name \o <<95>>
                                  \o IndexNameBytes(last'.index) \o <<58>>,
                         indexer |-> last'.kind, unique |-> last'.unique]
      ]_vars

\* a second index was added to a bucket that had one
C16_Witness ==
    /\ last.op = "WithIndex" /\ ~last.panic
    /\ Cardinality(DOMAIN last.recv) = 1
    /\ Cardinality(DOMAIN bucket.indexes) = 2

\* the byte string p starts the byte string k
IsPrefix(p, k) == Len(p) <= Len(k) /\ SubSeq(k, 1, Len(p)) = p

\* C17: no index entry of the store holds an empty MultiRef, and no index
\* has an entry under the empty index key.
C17_NoEmptyMultiRef ==
    \A n \in DOMAIN bucket.indexes :
        /\ bucket.indexes[n].id \notin DOMAIN db
        /\ \A k \in DOMAIN db :
              IsPrefix(bucket.indexes[n].id, k) => Len(db[k]) > 0

\* the last reference under an index key was removed while a record without
\* name, which the name index has no key for, is stored
C17_Witness ==
    /\ last.op = "Delete" /\ last.err = NoErr /\ last.had
    /\ "name" \in DOMAIN bucket.indexes
    /\ \A ikey \in IndexKeys : Len(Refs(db, "name", ikey)) = 0
    /\ \E key \in keys : /\ ~Stored(db, key).isNil
                          /\ Stored(db, key).value.name = 0

\* C20: what a Save or a Delete returns and leaves in the store does not
\* depend on the order in which the indexes of the bucket are visited.
C20_OrderIndependent ==
    \A o1 \in Orders(DOMAIN bucket.indexes), o2 \in Orders(DOMAIN bucket.indexes) :
        \A key \in keys :
            /\ Delete(bucket, db, key, o1) = Delete(bucket, db, key, o2)
            /\ \A value \in Values, marshalOk \in BOOLEAN :
                  Save(bucket, db, NewSimpleObj(key, value), marshalOk, o1)
                    = Save(bucket, db, NewSimpleObj(key, value), marshalOk, o2)

\* Delete alone: its index updates only remove references and cannot fail
C20_DeleteOrderIndependent ==
    \A o1 \in Orders(DOMAIN bucket.indexes), o2 \in Orders(DOMAIN bucket.indexes) :
        \A key \in keys :
            Delete(bucket, db, key, o1) = Delete(bucket, db, key, o2)

\* x is the coded error e or wraps it at some depth
IsOrWraps(e, x) == x.kind = "coded" /\ Cause(x) = e

\* C18: for a coded error e, e.Is(x) holds exactly when x is e or wraps e,
\* or is a multi-error with e or a wrapped e at some position; for a nil
\* *Error, Is(x) holds exactly when x is nil or a typed nil.
C18_ErrorIs ==
    last.op = "Is"
    => ( last.got <=>
           IF last.a = NilErr THEN last.b \in {NilErr, TypedNil}
           ELSE \/ IsOrWraps(last.a, last.b)
                \/ /\ last.b.kind = "multi"
                   /\ \E i \in 1..Len(last.b.items) :
                         IsOrWraps(last.a, last.b.items[i]) )

\* Is found the error wrapped at the second position of a multi-error
C18_Witness ==
    /\ last.op = "Is" /\ last.got
    /\ last.b.kind = "multi" /\ Len(last.b.items) = 2
    /\ ~IsOrWraps(last.a, last.b.items[1])
    /\ last.b.items[2].depth = MaxDepth

\* C19: no step of cmdKeygen changes a key file that holds a key, and an
\* invocation that finds a file at the key path returns an error.
C19_ExistingKeyFileKept ==
    [][ /\ (fs.exists /\ fs.content /= 0) => fs' = fs
        /\ (last'.op = "Stat" /\ fs.exists) => last'.err = ErrExists
      ]_vars

(***************************************************************************)
(* C21: Save is idempotent.  In every state a successful Save of (key,     *)
(* value) has just produced, saving the same object again succeeds, for    *)
(* every order the indexes may be visited in and also under the unique     *)
(* index, and returns exactly the store it was given: the primary record   *)
(* and every index entry are those the first Save left.  Marshal is a      *)
(* function of the value, so it succeeds the second time as it did the     *)
(* first.                                                                  *)
(***************************************************************************)
C21_SaveIdempotent ==
    (last.op = "Save" /\ last.err = NoErr) =>
        \A order \in Orders(DOMAIN bucket.indexes) :
            Save(bucket, db, NewSimpleObj(last.key, last.value), TRUE, order)
                = [db |-> db, err |-> NoErr]

\* a Save under the unique index succeeded while another record is stored
C21_Witness ==
    /\ last.op = "Save"
    /\ last.err = NoErr
    /\ "name" \in DOMAIN bucket.indexes
    /\ \E k \in keys : k /= last.key /\ Has(db, DBKey(bucket, k))
    /\ Has(db, DBKey(bucket, last.key))

(***************************************************************************)
(* Primary keys are raw byte strings: the application may store a record   *)
(* under the bytes of a sequence name.  The bucket of this specification   *)
(* has no index; its primary keys are one one-byte key and the two bytes   *)
(* of "id", the name of its Sequence.                                      *)
(***************************************************************************)
InitRawKeys ==
    /\ bucket = PlainBucket
    /\ keys = KeysUpTo(1) \cup {SeqID}
    /\ db = EmptyStore
    /\ seq = Sequence(bucket, SeqID)
    /\ issued = <<>>
    /\ bootAt = 0
    /\ last = NoCall
    /\ ExtInit

SpecRawKeys == InitRawKeys /\ [][NextSeq]_vars

\* what the store holds for the counter of the Sequence
CounterAt(store) == IF Has(store, seq) THEN store[seq] ELSE <<>>

(***************************************************************************)
(* C26: primary records and sequence counters of one bucket never share a  *)
(* store key.  No Save and no Delete, whatever primary key it is given,    *)
(* changes or removes what the store holds for the counter of the bucket's *)
(* Sequence, and the values NextVal has issued are strictly increasing     *)
(* whatever Save and Delete calls came between them.                       *)
(***************************************************************************)
C26_CounterUntouched ==
    /\ [][last'.op \in {"Save", "Delete"} => CounterAt(db') = CounterAt(db)]_vars
    /\ [](Ascending(issued))

(***************************************************************************)
(* The application keeps what DBKey and Sequence returned: a key it built  *)
(* with DBKey and the id inside the Sequence.  The bucket has no index.    *)
(* Get, Save and Delete build the record's store key with the same append; *)
(* Save reaches it once the value has passed Validate and Marshal.         *)
(* NextVal uses the id as the Sequence reads it when it is called.         *)
(***************************************************************************)
InitAlias ==
    /\ bucket = PlainBucket
    /\ keys = KeysUpTo(MaxKey)
    /\ db = EmptyStore
    /\ seq = Sequence(bucket, SeqID)
    /\ issued = <<>>
    /\ bootAt = 0
    /\ last = NoCall
    /\ unbound = WithLastModified(PlainBucket)
    /\ bound = [s \in {} |-> NilBound]
    /\ router = {}
    /\ registry = InitRegistry
    /\ KeygenInit
    /\ backing \in Backings
    /\ held = [s \in HeldSlots |-> NilSlice]
    /\ PaychanInit

aliasFrame ==
    UNCHANGED <<bucket, keys, seq, bootAt, lmVars, registry, keygenVars,
                paychanVars>>

DoDBKey ==
    \E key \in keys :
        LET r == appendPrefix(bucket, backing, key)
        IN  /\ backing' = r.backing
            /\ held' = [held EXCEPT !["key"] = r.slice]
            /\ last' = Call("DBKey", key, ZeroValue, "", NoErr, <<>>,
                            r.slice.bytes, FALSE)
            /\ UNCHANGED <<db, issued>>
            /\ aliasFrame

DoSequence ==
    LET r == appendPrefix(bucket, backing, SeqID)
    IN  /\ backing' = r.backing
        /\ held' = [held EXCEPT !["seq"] = r.slice]
        /\ last' = Call("Sequence", SeqID, ZeroValue, "", NoErr, <<>>,
                        r.slice.bytes, FALSE)
        /\ UNCHANGED <<db, issued>>
        /\ aliasFrame

DoSharedSave ==
    \E key \in keys, value \in Values :
    \E marshalOk \in (IF Validate(value) = NoErr THEN BOOLEAN ELSE {TRUE}) :
        LET r == Save(bucket, db, NewSimpleObj(key, value), marshalOk, <<>>)
        IN  /\ db' = r.db
            /\ backing' = IF Validate(value) = NoErr /\ marshalOk
                           THEN appendPrefix(bucket, backing, key).backing
                           ELSE backing
            /\ last' = Call("Save", key, value, "", r.err, <<>>, <<>>,
                            Has(db, DBKey(bucket, key)))
            /\ UNCHANGED <<held, issued>>
            /\ aliasFrame

DoSharedDelete ==
    \E key \in keys :
        LET r == Delete(bucket, db, key, <<>>)
        IN  /\ db' = r.db
            /\ backing' = appendPrefix(bucket, backing, key).backing
            /\ last' = Call("Delete", key, ZeroValue, "", r.err, <<>>, <<>>,
                            Has(db, DBKey(bucket, key)))
            /\ UNCHANGED <<held, issued>>
            /\ aliasFrame

DoSharedGet ==
    \E key \in keys :
        LET r == Get(bucket, db, key)
        IN  /\ backing' = appendPrefix(bucket, backing, key).backing
            /\ last' = Call("Get", key, ZeroValue, "", r.err, <<r.obj>>, <<>>,
                            Has(db, DBKey(bucket, key)))
            /\ UNCHANGED <<db, held, issued>>
            /\ aliasFrame

DoSharedNextVal ==
    /\ held["seq"].set
    /\ Len(issued) < MaxCount
    /\ LET id == SliceBytes(bucket, backing, held["seq"])
           r == NextVal(id, db)
       IN  /\ decodeSequence(db, id) < MaxCount
           /\ db' = r.db
           /\ issued' = Append(issued, r.out)
           /\ last' = Call("NextVal", id, ZeroValue, "", NoErr, <<>>, r.out,
                           FALSE)
    /\ UNCHANGED <<backing, held>>
    /\ aliasFrame

NextAlias ==
    \/ DoDBKey
    \/ DoSequence
    \/ DoSharedSave
    \/ DoSharedDelete
    \/ DoSharedGet
    \/ DoSharedNextVal

SpecAlias == InitAlias /\ [][NextAlias]_vars

(***************************************************************************)
(* C27: keys built from the bucket prefix are independent values.  A key   *)
(* DBKey returned and the id Bucket.Sequence gave its Sequence read, after *)
(* any later DBKey, Sequence, Get, Save or Delete call on the bucket, as   *)
(* they did when they were returned, and the prefix of the bucket is its   *)
(* name followed by ":".                                                   *)
(***************************************************************************)
C27_KeysIndependent ==
    /\ \A s \in HeldSlots :
        held[s].set => SliceBytes(bucket, backing, held[s]) = held[s].bytes
    /\ bucket.prefix = bucket.name \o <<58>>

(***************************************************************************)
(* The payment channel handlers.  A channel is the PaymentChannel record   *)
(* the paychan bucket stores under its id; coins are amounts of one ticker *)
(* and the cash controller keeps one balance per address.  A Deliver ends  *)
(* in "ok", in "error" (it returned an error) or in "panic", and yields    *)
(* the store as the handler left it at that point.                         *)
(***************************************************************************)
Users == {1, 2, 3}

ChanIDs == {1, 2}

\* the signers of a transaction: nobody, or one user
Signers == {{}} \cup {{u} : u \in Users}

\* a nil key
NoKey == 0

Panic == "panic"

ErrLoad == "load msg"
ErrExpired == "expired"
ErrUnauthorized == "unauthorized"
ErrMsg == "invalid message"
ErrInvalidAmount == "invalid amount"
ErrInsufficientAmount == "insufficient funds"

\* "paychan"
PaychanName == <<112, 97, 121, 99, 104, 97, 110>>

\* the id of idSeq
PaychanSeq == Sequence(NewBucket(PaychanName), SeqID)

paymentChannelAccount(id) == 10 + id

\* the context of a Deliver: block time, signers and chain id
Ctx(t, signers) == [now |-> t, signers |-> signers, chain |-> 0]

IsExpired(ctx, t) == t <= ctx.now

HasAddress(ctx, a) == a \in ctx.signers

Balance(w, a) == IF a \in DOMAIN w THEN w[a] ELSE 0

\* cash.Controller.MoveCoins: [wallet, err]
MoveCoins(w, src, dst, amount) ==
    IF amount <= 0 THEN [wallet |-> w, err |-> ErrInvalidAmount]
    ELSE IF Balance(w, src) < amount
    THEN [wallet |-> w, err |-> ErrInsufficientAmount]
    ELSE [wallet |->
              [a \in DOMAIN w \cup {src, dst} |->
                   IF a = src THEN Balance(w, a) - amount
                   ELSE IF a = dst THEN Balance(w, a) + amount
                   ELSE w[a]],
          err |-> NoErr]

NilChannel ==
    [Src |-> 0, Recipient |-> 0, Total |-> 0, Timeout |-> 0, Memo |-> 0,
     Transferred |-> 0]

\* PaymentChannel.Validate
PaymentChannelValidate(c) == Panic

\* Put of the bound bucket: [res, err, db, chans, key].  The decorator hands
\* the call on; the bucket validates the model, draws a key from idSeq when
\* it is given none, and saves.
paychanPut(store, chs, key, c) ==
    IF PaymentChannelValidate(c) = Panic
    THEN [res |-> Panic, err |-> NoErr, db |-> store, chans |-> chs,
          key |-> NoKey]
    ELSE IF PaymentChannelValidate(c) /= NoErr
    THEN [res |-> "error", err |-> PaymentChannelValidate(c), db |-> store,
          chans |-> chs, key |-> NoKey]
    ELSE LET n == IF key = NoKey THEN NextVal(PaychanSeq, store)
                  ELSE [db |-> store, out |-> <<key>>]
             k == decodeFrom(n.out, 0)
         IN  [res |-> "ok", err |-> NoErr, db |-> n.db,
              chans |-> [i \in DOMAIN chs \cup {k} |->
                            IF i = k THEN c ELSE chs[i]],
              key |-> k]

\* One of the bound bucket: [pc, err]
paychanOne(chs, key) ==
    IF key \in DOMAIN chs THEN [pc |-> chs[key], err |-> NoErr]
    ELSE [pc |-> NilChannel, err |-> ErrNotFound]

\* Delete of the bound bucket: [chans, err]
paychanDelete(chs, key) ==
    IF key \in DOMAIN chs
    THEN [chans |-> [i \in DOMAIN chs \ {key} |-> chs[i]], err |-> NoErr]
    ELSE [chans |-> chs, err |-> ErrNotFound]

\* what a Deliver yields
Delivered(res, err, store, chs, w, key) ==
    [res |-> res, err |-> err, db |-> store, chans |-> chs, wallet |-> w,
     key |-> key]

createValidate(ctx, msg) ==
    IF ~msg.loaded THEN ErrLoad
    ELSE IF IsExpired(ctx, msg.Timeout) THEN ErrExpired
    ELSE IF ~HasAddress(ctx, msg.Src) THEN ErrUnauthorized
    ELSE NoErr

createDeliver(ctx, store, chs, w, msg) ==
    IF createValidate(ctx, msg) /= NoErr
    THEN Delivered("error", createValidate(ctx, msg), store, chs, w, NoKey)
    ELSE LET p == paychanPut(store, chs, NoKey,
                      [Src |-> msg.Src, Recipient |-> msg.Recipient,
                       Total |-> msg.Total, Timeout |-> msg.Timeout,
                       Memo |-> msg.Memo, Transferred |-> 0])
         IN  IF p.res /= "ok"
             THEN Delivered(p.res, p.err, p.db, p.chans, w, NoKey)
             ELSE LET m == MoveCoins(w, msg.Src, paymentChannelAccount(p.key),
                                     msg.Total)
                  IN  IF m.err /= NoErr
                      THEN Delivered("error", m.err, p.db, p.chans, w, NoKey)
                      ELSE Delivered("ok", NoErr, p.db, p.chans, m.wallet,
                                     p.key)

\* transferValidate without the check against the amount already transferred
transferValidateNoFloor(ctx, chs, msg) ==
    IF ~msg.loaded THEN ErrLoad
    ELSE IF ctx.chain /= msg.ChainID THEN ErrMsg
    ELSE IF paychanOne(chs, msg.ChannelID).err /= NoErr
    THEN paychanOne(chs, msg.ChannelID).err
    ELSE IF ~msg.marshals THEN ErrMarshal
    ELSE IF ~msg.signed THEN ErrMsg
    ELSE IF msg.Ticker /= 0 THEN ErrMsg
    ELSE IF msg.Amount > paychanOne(chs, msg.ChannelID).pc.Total THEN ErrMsg
    ELSE NoErr

\* transferPaymentChannelHandler.validate
transferValidate(ctx, chs, msg) ==
    IF ~msg.loaded THEN ErrLoad
    ELSE IF ctx.chain /= msg.ChainID THEN ErrMsg
    ELSE IF paychanOne(chs, msg.ChannelID).err /= NoErr
    THEN paychanOne(chs, msg.ChannelID).err
    ELSE IF ~msg.marshals THEN ErrMarshal
    ELSE IF ~msg.signed THEN ErrMsg
    ELSE IF msg.Ticker /= 0 THEN ErrMsg
    ELSE IF msg.Amount > paychanOne(chs, msg.ChannelID).pc.Total THEN ErrMsg
    ELSE IF msg.Amount <= paychanOne(chs, msg.ChannelID).pc.Transferred
    THEN ErrMsg
    ELSE NoErr

\* transfer Deliver that moves the coins before it validates the message
transferDeliverMovesFirst(ctx, store, chs, w, msg) ==
    LET id == msg.ChannelID
        o == paychanOne(chs, id)
        diff == msg.Amount - o.pc.Transferred
        m == MoveCoins(w, paymentChannelAccount(id), o.pc.Recipient, diff)
        c == [o.pc EXCEPT !.Transferred = msg.Amount, !.Memo = msg.Memo]
    IN  IF o.err /= NoErr
        THEN Delivered("error", o.err, store, chs, w, NoKey)
        ELSE IF m.err /= NoErr
        THEN Delivered("error", m.err, store, chs, w, NoKey)
        ELSE IF transferValidate(ctx, chs, msg) /= NoErr
        THEN Delivered("error", transferValidate(ctx, chs, msg), store, chs,
                       m.wallet, NoKey)
        ELSE IF c.Transferred = c.Total
        THEN Delivered("ok", NoErr, store, paychanDelete(chs, id).chans,
                       m.wallet, NoKey)
        ELSE LET p == paychanPut(store, chs, id, c)
             IN  Delivered(p.res, p.err, p.db, p.chans, m.wallet, NoKey)

\* transferPaymentChannelHandler.Deliver
transferDeliver(ctx, store, chs, w, msg) ==
    LET id == msg.ChannelID
        o == paychanOne(chs, id)
        diff == msg.Amount - o.pc.Transferred
        m == MoveCoins(w, paymentChannelAccount(id), o.pc.Recipient, diff)
        c == [o.pc EXCEPT !.Transferred = msg.Amount, !.Memo = msg.Memo]
    IN  IF transferValidate(ctx, chs, msg) /= NoErr
        THEN Delivered("error", transferValidate(ctx, chs, msg), store, chs, w,
                       NoKey)
        ELSE IF o.err /= NoErr
        THEN Delivered("error", o.err, store, chs, w, NoKey)
        ELSE IF diff = 0
        THEN Delivered("error", ErrMsg, store, chs, w, NoKey)
        ELSE IF m.err /= NoErr
        THEN Delivered("error", m.err, store, chs, w, NoKey)
        ELSE IF c.Transferred = c.Total
        THEN LET d == paychanDelete(chs, id)
             IN  Delivered(IF d.err = NoErr THEN "ok" ELSE "error", d.err,
                           store, d.chans, m.wallet, NoKey)
        ELSE LET p == paychanPut(store, chs, id, c)
             IN  Delivered(p.res, p.err, p.db, p.chans, m.wallet, NoKey)

\* close Deliver that lets anyone close before the timeout
closeDeliverNoAuth(ctx, store, chs, w, msg) ==
    LET id == msg.ChannelID
        o == paychanOne(chs, id)
        d == paychanDelete(chs, id)
        m == MoveCoins(w, paymentChannelAccount(id), o.pc.Src,
                       o.pc.Total - o.pc.Transferred)
    IN  IF ~msg.loaded THEN Delivered("error", ErrLoad, store, chs, w, NoKey)
        ELSE IF o.err /= NoErr
        THEN Delivered("error", o.err, store, chs, w, NoKey)
        ELSE IF o.pc.Total = o.pc.Transferred
        THEN Delivered(IF d.err = NoErr THEN "ok" ELSE "error", d.err, store,
                       d.chans, w, NoKey)
        ELSE IF m.err /= NoErr
        THEN Delivered("error", m.err, store, chs, w, NoKey)
        ELSE IF d.err /= NoErr
        THEN Delivered("error", d.err, store, chs, m.wallet, NoKey)
        ELSE Delivered("ok", NoErr, store, d.chans, m.wallet, NoKey)

\* closePaymentChannelHandler.Deliver
closeDeliver(ctx, store, chs, w, msg) ==
    LET id == msg.ChannelID
        o == paychanOne(chs, id)
        d == paychanDelete(chs, id)
        m == MoveCoins(w, paymentChannelAccount(id), o.pc.Src,
                       o.pc.Total - o.pc.Transferred)
    IN  IF ~msg.loaded THEN Delivered("error", ErrLoad, store, chs, w, NoKey)
        ELSE IF o.err /= NoErr
        THEN Delivered("error", o.err, store, chs, w, NoKey)
        ELSE IF o.pc.Total = o.pc.Transferred
        THEN Delivered(IF d.err = NoErr THEN "ok" ELSE "error", d.err, store,
                       d.chans, w, NoKey)
        ELSE IF ~IsExpired(ctx, o.pc.Timeout) /\ ~HasAddress(ctx, o.pc.Recipient)
        THEN Delivered("error", ErrMsg, store, chs, w, NoKey)
        ELSE IF m.err /= NoErr
        THEN Delivered("error", m.err, store, chs, w, NoKey)
        ELSE IF d.err /= NoErr
        THEN Delivered("error", d.err, store, chs, m.wallet, NoKey)
        ELSE Delivered("ok", NoErr, store, d.chans, m.wallet, NoKey)

(***************************************************************************)
(* The state machine of the payment channel handlers: one action per       *)
(* Deliver and one for the block time.  PaymentChannel.Validate of this    *)
(* revision panics, so no Put of this revision stores a channel: the store *)
(* the handlers are given is the chain's state, and the channels it holds  *)
(* at the start are those earlier blocks stored, each with its account     *)
(* funded with what is left of its Total and a timeout still ahead.        *)
(* last holds the Deliver just made and how it ended.                      *)
(***************************************************************************)
PaychanCall(op, id, amount, signers, flaw, res, err) ==
    [op |-> op, id |-> id, amount |-> amount, signers |-> signers,
     flaw |-> flaw, res |-> res, err |-> err]

\* the channels a store can hold: sender 1, recipient 2
StoredChannels ==
    {[Src |-> 1, Recipient |-> 2, Total |-> t, Timeout |-> d, Memo |-> 0,
      Transferred |-> x] :
        t \in 1..MaxTotal, d \in 1..MaxTime, x \in 0..(MaxTotal - 1)}

\* the handlers are sent messages for the channel ids in ids
InitChannels(ids) ==
    /\ bucket = NewBucket(PaychanName)
    /\ keys = ids
    /\ db = Set(EmptyStore, PaychanSeq, encodeSequence(Cardinality(ChanIDs)))
    /\ seq = PaychanSeq
    /\ issued = <<>>
    /\ bootAt = 0
    /\ last = PaychanCall("init", NoKey, 0, {}, "none", "ok", NoErr)
    /\ unbound = WithLastModified(NewBucket(PaychanName))
    /\ bound = [s \in {} |-> NilBound]
    /\ router = {}
    /\ registry = InitRegistry
    /\ KeygenInit
    /\ AliasInit
    /\ \E stored \in SUBSET ids :
        /\ chans \in [stored -> {c \in StoredChannels : c.Transferred < c.Total}]
        /\ wallet = [a \in Users \cup {paymentChannelAccount(i) : i \in ids} |->
                        IF \E i \in stored : a = paymentChannelAccount(i)
                        THEN LET i == CHOOSE i \in stored :
                                          a = paymentChannelAccount(i)
                             IN  chans[i].Total - chans[i].Transferred
                        ELSE IF a = 1 THEN MaxTotal ELSE 0]
    /\ now = 0

\* one channel id
InitPaychan == InitChannels({1})

\* two channel ids
InitPaychanPair == InitChannels(ChanIDs)

paychanFrame ==
    UNCHANGED <<bucket, keys, seq, issued, bootAt, lmVars, registry,
                keygenVars, aliasVars>>

\* what can be wrong with a transfer message apart from its amount
Flaws == {"none", "load", "chain", "marshal", "signature", "ticker"}

DoCreate ==
    \E signers \in Signers, src \in {1, 3}, total \in 1..MaxTotal,
       timeout \in 0..MaxTime, loaded \in BOOLEAN :
        LET msg == [loaded |-> loaded, Src |-> src, Recipient |-> 2,
                    Total |-> total, Timeout |-> timeout, Memo |-> 0]
            r == createDeliver(Ctx(now, signers), db, chans, wallet, msg)
        IN  /\ db' = r.db
            /\ chans' = r.chans
            /\ wallet' = r.wallet
            /\ last' = PaychanCall("create", r.key, total, signers,
                                   IF loaded THEN "none" ELSE "load", r.res,
                                   r.err)
            /\ UNCHANGED now
            /\ paychanFrame

DoTransfer ==
    \E id \in keys, amount \in 0..(MaxTotal + 1), flaw \in Flaws :
        LET msg == [loaded |-> flaw /= "load",
                    ChainID |-> IF flaw = "chain" THEN 1 ELSE 0,
                    ChannelID |-> id, Amount |-> amount,
                    Ticker |-> IF flaw = "ticker" THEN 1 ELSE 0, Memo |-> 1,
                    marshals |-> flaw /= "marshal",
                    signed |-> flaw /= "signature"]
            r == transferDeliver(Ctx(now, {}), db, chans, wallet, msg)
        IN  /\ db' = r.db
            /\ chans' = r.chans
            /\ wallet' = r.wallet
            /\ last' = PaychanCall("transfer", id, amount, {}, flaw, r.res,
                                   r.err)
            /\ UNCHANGED now
            /\ paychanFrame

DoCloseChannel ==
    \E signers \in Signers, id \in keys, loaded \in BOOLEAN :
        LET msg == [loaded |-> loaded, ChannelID |-> id]
            r == closeDeliver(Ctx(now, signers), db, chans, wallet, msg)
        IN  /\ db' = r.db
            /\ chans' = r.chans
            /\ wallet' = r.wallet
            /\ last' = PaychanCall("close", id, 0, signers,
                                   IF loaded THEN "none" ELSE "load", r.res,
                                   r.err)
            /\ UNCHANGED now
            /\ paychanFrame

\* the next block: its time is later
DoBlock ==
    /\ now < MaxTime
    /\ now' = now + 1
    /\ last' = PaychanCall("block", NoKey, 0, {}, "none", "ok", NoErr)
    /\ UNCHANGED <<db, chans, wallet>>
    /\ paychanFrame

NextPaychan ==
    \/ DoCreate
    \/ DoTransfer
    \/ DoCloseChannel
    \/ DoBlock

SpecPaychan == InitPaychan /\ [][NextPaychan]_vars

SpecPaychanPair == InitPaychanPair /\ [][NextPaychan]_vars

\* the coins the account of channel id holds
Held(w, id) == Balance(w, paymentChannelAccount(id))

\* a channel's account holds what is left of its Total
Funded(chs, w, id) == Held(w, id) = chs[id].Total - chs[id].Transferred

(***************************************************************************)
(* C22: over any sequence of transfer Delivers the Transferred amount of a *)
(* channel never decreases and never exceeds its Total; a transfer that    *)
(* succeeds asked for more than the amount transferred so far and for no   *)
(* more than the Total, and the record, if the channel is kept, holds the  *)
(* amount asked for; a transfer whose cumulative amount is at most the     *)
(* current Transferred or above the Total returns an error and leaves the  *)
(* channels and the balances as they were, and when nothing else is wrong  *)
(* with the message it is the validation that refuses it.                  *)
(***************************************************************************)
C22_TransferredIncreases ==
    [][last'.op = "transfer" =>
        LET id == last'.id
            amount == last'.amount
        IN  /\ \A c \in DOMAIN chans \cap DOMAIN chans' :
                /\ chans[c].Transferred <= chans'[c].Transferred
                /\ chans'[c].Transferred <= chans'[c].Total
            /\ last'.res = "ok" =>
                /\ id \in DOMAIN chans
                /\ chans[id].Transferred < amount
                /\ amount <= chans[id].Total
                /\ id \in DOMAIN chans' => chans'[id].Transferred = amount
            /\ (/\ id \in DOMAIN chans
                /\ \/ amount <= chans[id].Transferred
                   \/ amount > chans[id].Total) =>
                /\ last'.res = "error"
                /\ last'.flaw = "none" => last'.err = ErrMsg
                /\ chans' = chans
                /\ wallet' = wallet]_vars

\* a transfer of more than was transferred before has succeeded
C22_Witness ==
    /\ last.op = "transfer"
    /\ last.res = "ok"
    /\ last.amount = MaxTotal
    /\ Balance(wallet, 2) = 1

C24_CloseNeedsRecipient ==
    [][(last'.op = "close" /\ last'.id \in DOMAIN chans) =>
        LET id == last'.id
            c == chans[id]
        IN  IF c.Total /= c.Transferred /\ ~IsExpired(Ctx(now, {}), c.Timeout)
            THEN /\ last'.res = "ok" => c.Recipient \in last'.signers
                 /\ c.Recipient \notin last'.signers =>
                     /\ last'.res = "error"
                     /\ chans' = chans
                     /\ wallet' = wallet
            ELSE last'.flaw = "none" =>
                     /\ last'.err /= ErrMsg
                     /\ Funded(chans, wallet, id) =>
                         last'.res = "ok" /\ id \notin DOMAIN chans']_vars

\* the recipient has closed a channel before its timeout
C24_Witness ==
    /\ last.op = "close"
    /\ last.res = "ok"
    /\ last.signers = {2}
    /\ now = 0
    /\ last.id \notin DOMAIN chans

====
